---- MODULE Spec2Model ----
(***************************************************************************)
(* A model of cost.py: the MCP tool flag_new_services, which fetches the   *)
(* services billed by AWS Cost Explorer, compares them with the set kept   *)
(* in previous_services.json, rewrites that file and reports the new ones. *)
(***************************************************************************)
EXTENDS Integers, Sequences, FiniteSets, TLC

\* ------------------------------------------------------------------ bounds

\* Time buckets in a Cost Explorer response given to extract_services.
MaxBuckets == 2
\* Groups in one time bucket.
MaxGroups == 2
\* Entries of a baseline file that was not written by this program.
MaxFileItems == 2
\* Invocations of flag_new_services one server process serves.
MaxRuns == 3

\* ------------------------------------------------------------ data model

\* Service identifiers: opaque strings, compared by equality only.
Services == {"EC2", "S3", "Lambda"}

\* The server processes that share the working directory (one per stdio client).
Procs == {"a", "b"}

SeqsUpTo(S, n) == UNION {[1..k -> S] : k \in 0..n}

Max(a, b) == IF a >= b THEN a ELSE b

\* Every order in which the elements of a set can be listed, each once.
Orderings(S) == {s \in [1..Cardinality(S) -> S] : \A x \in S : \E i \in DOMAIN s : s[i] = x}

SetOf(s) == {s[i] : i \in DOMAIN s}

\* A group of a response: a dict that may lack 'Keys'; Keys is a list of strings.
GroupsOver(keyLists) ==
    {[hasKeys |-> TRUE, Keys |-> k] : k \in keyLists} \cup {[hasKeys |-> FALSE, Keys |-> <<>>]}

\* A time bucket: a dict that may lack 'Groups'.
ResultsOver(keyLists, ng) ==
    {[hasGroups |-> TRUE, Groups |-> g] : g \in SeqsUpTo(GroupsOver(keyLists), ng)}
        \cup {[hasGroups |-> FALSE, Groups |-> <<>>]}

\* A response of client.get_cost_and_usage: a non-empty dict (boto3 always adds
\* 'ResponseMetadata') that may lack 'ResultsByTime'.
ResponsesOver(keyLists, nb, ng) ==
    {[kind |-> "dict", hasResultsByTime |-> TRUE, ResultsByTime |-> r] :
        r \in SeqsUpTo(ResultsOver(keyLists, ng), nb)}
        \cup {[kind |-> "dict", hasResultsByTime |-> FALSE, ResultsByTime |-> <<>>]}

None == [kind |-> "None", hasResultsByTime |-> FALSE, ResultsByTime |-> <<>>]

\* No value bound yet (a local before its assignment).
Unset == [kind |-> "unset", hasResultsByTime |-> FALSE, ResultsByTime |-> <<>>]

\* ------------------------------------------------------- extract_services

\* A mutation of FirstKey: the last key of the group instead of the first.
LastKey(group) == group.Keys[Len(group.Keys)]

\* group['Keys'][0]
FirstKey(group) == group.Keys[1]

RECURSIVE WalkGroups(_, _, _)
\* The inner loop, lines 42-44, from group j on: how it ends and what it collected.
WalkGroups(groups, j, services) ==
    IF j > Len(groups) THEN [status |-> "ok", services |-> services]
    ELSE IF ~groups[j].hasKeys THEN [status |-> "KeyError", services |-> services]
    ELSE IF Len(groups[j].Keys) = 0 THEN [status |-> "IndexError", services |-> services]
    ELSE WalkGroups(groups, j + 1, services \cup {FirstKey(groups[j])})

RECURSIVE WalkResults(_, _, _)
\* The outer loop, lines 41-44, from bucket i on.
WalkResults(results, i, services) ==
    IF i > Len(results) THEN [status |-> "ok", services |-> services]
    ELSE IF ~results[i].hasGroups THEN [status |-> "KeyError", services |-> services]
    ELSE LET inner == WalkGroups(results[i].Groups, 1, services)
         IN  IF inner.status = "ok" THEN WalkResults(results, i + 1, inner.services)
             ELSE inner

\* extract_services(data): KeyError is caught and the set collected so far is
\* returned; any other exception (IndexError of an empty Keys list, TypeError of
\* None['ResultsByTime']) leaves the function.
extract_services(data) ==
    LET walk == IF data.kind # "dict" THEN [status |-> "TypeError", services |-> {}]
                ELSE IF ~data.hasResultsByTime THEN [status |-> "KeyError", services |-> {}]
                ELSE WalkResults(data.ResultsByTime, 1, {})
    IN  IF walk.status \in {"IndexError", "TypeError"} THEN [raised |-> TRUE, value |-> {}]
        ELSE [raised |-> FALSE, value |-> walk.services]

\* The responses extract_services is applied to on its own.
ExtractKeyLists == {<<>>, <<"EC2">>, <<"S3", "EC2">>}
ExtractInputs == ResponsesOver(ExtractKeyLists, MaxBuckets, MaxGroups)

NoOutcome == [raised |-> FALSE, value |-> {}]

\* ------------------------------------------------- previous_services.json

\* The length of the text json.dump writes for a list of strings.
RECURSIVE JsonLen(_)
JsonLen(items) ==
    IF Len(items) = 0 THEN 2
    ELSE IF Len(items) = 1 THEN Len(items[1]) + 4
    ELSE Len(items[1]) + 4 + JsonLen(Tail(items))

\* What PREVIOUS_SERVICES_FILE holds: nothing (no such file), a JSON array of
\* strings, valid JSON that is no array (a number, null), or text that is not
\* JSON (the empty file an open for writing leaves, a partial or overlaid write).
FileAbsent == [kind |-> "absent", items |-> <<>>, len |-> 0]
FileArray(items) == [kind |-> "array", items |-> items, len |-> JsonLen(items)]
FileScalar == [kind |-> "scalar", items |-> <<>>, len |-> 1]
FileGarbage(n) == [kind |-> "invalid", items |-> <<>>, len |-> n]
FileEmpty == FileGarbage(0)

\* The file before the program first runs: anything a user may have left there.
InitialFiles ==
    {FileAbsent, FileScalar, FileEmpty} \cup {FileArray(s) : s \in SeqsUpTo(Services, MaxFileItems)}

\* A mutation of load_previous_services: the file is looked for where it is not,
\* and every load starts from the empty set.
load_always_empty(f) == [raised |-> FALSE, value |-> {}]

\* load_previous_services(): set(json.load(f)); FileNotFoundError and
\* JSONDecodeError are caught and give set(); set() of a JSON value that is not
\* iterable raises TypeError, which is not caught.
load_previous_services(f) ==
    CASE f.kind = "absent" -> [raised |-> FALSE, value |-> {}]
      [] f.kind = "invalid" -> [raised |-> FALSE, value |-> {}]
      [] f.kind = "array" -> [raised |-> FALSE, value |-> SetOf(f.items)]
      [] f.kind = "scalar" -> [raised |-> TRUE, value |-> {}]

\* A mutation of OpenForWrite: mode 'r+' in place of 'w', which does not cut the file.
OpenNoTruncate(f) ==
    {[ok |-> TRUE, file |-> IF f.kind = "absent" THEN FileEmpty ELSE f], [ok |-> FALSE, file |-> f]}

\* open(PREVIOUS_SERVICES_FILE, 'w'), line 64: the file is created or cut to
\* length 0, or the open fails (IOError, caught on line 66) and nothing changes.
OpenForWrite(f) == {[ok |-> TRUE, file |-> FileEmpty], [ok |-> FALSE, file |-> f]}

\* One write at offset 0 of a descriptor opened before: the text replaces the
\* head of what the file holds now; a longer text another writer put there
\* since the open keeps its tail, and the whole is no JSON.
Overlay(f, items) == IF f.len <= JsonLen(items) THEN FileArray(items) ELSE FileGarbage(f.len)

\* A mutation of Dump: the list written has lost its last element.
DumpDropsLast(f, services) ==
    {[ok |-> TRUE, file |-> Overlay(f, SubSeq(o, 1, Len(o) - 1))] : o \in Orderings(services)}

\* json.dump(list(services), f) and the close of the with block, line 65: the
\* elements in any order, each once.
Dump(f, services) == {[ok |-> TRUE, file |-> Overlay(f, o)] : o \in Orderings(services)}

\* Line 65 with its failures: an IOError (caught on line 66) after nothing or a
\* part of the text was written.
DumpAndClose(f, services) ==
    Dump(f, services) \cup {[ok |-> FALSE, file |-> f], [ok |-> FALSE, file |-> FileGarbage(Max(f.len, 1))]}


\* ------------------------------------------------------ flag_new_services

\* A mutation of compare_services: the operands of the difference swapped.
compare_swapped(last_month_services, current_month_services) ==
    last_month_services \ current_month_services

\* compare_services, lines 69-72.
compare_services(last_month_services, current_month_services) ==
    current_month_services \ last_month_services

\* A mutation of NoData: the test of line 88 left out.
NoDataNeverTrue(cd) == FALSE

\* `not cost_data`, line 88 (a response is never an empty dict).
NoData(cd) == cd.kind = "None"

\* A mutation of NoServices: the test of line 93 left out.
NoServicesNeverTrue(services) == FALSE

\* `not current_month_services`, line 93.
NoServices(services) == services = {}

RECURSIVE join(_, _)
\* sep.join(items)
join(sep, items) ==
    IF Len(items) = 0 THEN ""
    ELSE IF Len(items) = 1 THEN items[1]
    ELSE items[1] \o sep \o join(sep, Tail(items))

FetchError == "Error: Could not fetch AWS cost data"
NoServicesFound == "No services found in the AWS cost data."
NoNewServices == "No new AWS services detected since last check."
NewServicesPrefix == "New AWS services detected: "

\* Lines 106-111: the texts the last statement can return; a set is iterated in
\* an order the program does not choose.
Report(new_services) ==
    IF new_services # {}
    THEN {NewServicesPrefix \o join(", ", o) : o \in Orderings(new_services)}
    ELSE {NoNewServices}

\* The responses the billing query gives the tool: one time bucket.
FetchKeyLists == {<<>>} \cup {<<s>> : s \in Services}
Responses == ResponsesOver(FetchKeyLists, 1, 2)

\* The response once extract_services has read it: the tool does not read it again.
Read == [kind |-> "read", hasResultsByTime |-> FALSE, ResultsByTime |-> <<>>]

\* The positions of an invocation at which it is over.
Resting == {"idle", "returned", "raised"}

VARIABLES
    file,           \* the content of PREVIOUS_SERVICES_FILE
    pc,             \* per server process: the position of its invocation
    cost_data,      \* per process: the local cost_data
    current,        \* per process: current_month_services
    previous,       \* per process: previous_services
    new_services,   \* per process: new_services
    result,         \* per process: the text returned ("" while there is none)
    runs,           \* invocations started so far
    startFile,      \* per process: the file as its invocation found it
    seen,           \* per process: the file as its load_previous_services found it
    opens,          \* per process: times its invocation opened the file
    saved,          \* per process: its save_current_services wrote the file
    allSaved,       \* no save_current_services met an IOError so far
    lastFull,       \* the current set of the last invocation over that passed
                    \* line 94 (the baseline at the start before any)
    everFull,       \* the union of all values lastFull has had
    base,           \* per process: lastFull as its invocation found it
    everBase,       \* per process: everFull as its invocation found it
    lastOver,       \* the process whose invocation ended last ("" before any)
    data,           \* the argument of extract_services called on its own
    extracted,      \* what that call did: [raised, value]
    extractPc,      \* "call" before it, "done" after it
    storeArg,       \* the argument of save_current_services called on its own
    storePc,        \* the baseline store on its own: "save", "write", "load", "done"
    storeOk,        \* that save: "none" (not called), "ok", "IOError"
    loaded          \* what load_previous_services called on its own did

toolVars == <<pc, cost_data, current, previous, new_services, result, runs,
              startFile, seen, opens, saved, allSaved, lastFull, everFull, base, everBase, lastOver>>
extractVars == <<data, extracted, extractPc>>
storeVars == <<storeArg, storePc, storeOk, loaded>>
vars == <<file, toolVars, extractVars, storeVars>>

\* What load_previous_services makes of a file when it returns.
BaselineOf(f) == IF f.kind = "array" THEN SetOf(f.items) ELSE {}

\* The invocation of p ends at position at.
Over(p, at) ==
    /\ pc' = [pc EXCEPT ![p] = at]
    /\ lastOver' = p
    /\ lastFull' = IF pc[p] \notin Resting /\ current[p] # {} THEN current[p] ELSE lastFull
    /\ everFull' = everFull \cup lastFull'

\* Lines 75-89: a new invocation; the billing query answers or fails.
Fetch(p) ==
    /\ pc[p] \in Resting
    /\ runs < MaxRuns
    /\ runs' = runs + 1
    /\ \E cd \in Responses \cup {None} :
        /\ cost_data' = [cost_data EXCEPT ![p] = cd]
        /\ current' = [current EXCEPT ![p] = {}]
        /\ previous' = [previous EXCEPT ![p] = {}]
        /\ new_services' = [new_services EXCEPT ![p] = {}]
        /\ startFile' = [startFile EXCEPT ![p] = file]
        /\ seen' = [seen EXCEPT ![p] = FileAbsent]
        /\ opens' = [opens EXCEPT ![p] = 0]
        /\ saved' = [saved EXCEPT ![p] = FALSE]
        /\ base' = [base EXCEPT ![p] = lastFull]
        /\ everBase' = [everBase EXCEPT ![p] = everFull]
        /\ IF NoData(cd)
           THEN /\ result' = [result EXCEPT ![p] = FetchError]
                /\ Over(p, "returned")
           ELSE /\ result' = [result EXCEPT ![p] = ""]
                /\ pc' = [pc EXCEPT ![p] = "fetched"]
                /\ UNCHANGED <<lastFull, everFull, lastOver>>
    /\ UNCHANGED <<file, allSaved, extractVars, storeVars>>

\* Lines 92-94.
Extract(p) ==
    /\ pc[p] = "fetched"
    /\ LET got == extract_services(cost_data[p])
       IN  /\ cost_data' = [cost_data EXCEPT ![p] = Read]
           /\ IF got.raised
              THEN /\ UNCHANGED <<current, result>>
                   /\ Over(p, "raised")
              ELSE IF NoServices(got.value)
              THEN /\ result' = [result EXCEPT ![p] = NoServicesFound]
                   /\ UNCHANGED current
                   /\ Over(p, "returned")
              ELSE /\ current' = [current EXCEPT ![p] = got.value]
                   /\ pc' = [pc EXCEPT ![p] = "extracted"]
                   /\ UNCHANGED <<result, lastFull, everFull, lastOver>>
    /\ UNCHANGED <<file, previous, new_services, runs, startFile, seen, opens, saved,
                   allSaved, base, everBase, extractVars, storeVars>>

\* Lines 97-100.
Load(p) ==
    /\ pc[p] = "extracted"
    /\ opens' = [opens EXCEPT ![p] = @ + 1]
    /\ seen' = [seen EXCEPT ![p] = file]
    /\ LET got == load_previous_services(file)
       IN  IF got.raised
           THEN /\ Over(p, "raised")
                /\ UNCHANGED <<previous, new_services>>
           ELSE /\ previous' = [previous EXCEPT ![p] = got.value]
                /\ new_services' = [new_services EXCEPT ![p] = compare_services(got.value, current[p])]
                /\ pc' = [pc EXCEPT ![p] = "compared"]
                /\ UNCHANGED <<lastFull, everFull, lastOver>>
    /\ UNCHANGED <<file, cost_data, current, result, runs, startFile, saved, allSaved,
                   base, everBase, extractVars, storeVars>>

\* Line 103, up to the open of line 64.
SaveOpen(p) ==
    /\ pc[p] = "compared"
    /\ opens' = [opens EXCEPT ![p] = @ + 1]
    /\ \E o \in OpenForWrite(file) :
        /\ file' = o.file
        /\ pc' = [pc EXCEPT ![p] = IF o.ok THEN "opened" ELSE "saved"]
        /\ allSaved' = (allSaved /\ o.ok)
    /\ UNCHANGED <<cost_data, current, previous, new_services, result, runs, startFile,
                   seen, saved, lastFull, everFull, base, everBase, lastOver, extractVars, storeVars>>

\* Line 103, from line 65 to the return of save_current_services.
SaveWrite(p) ==
    /\ pc[p] = "opened"
    /\ \E o \in DumpAndClose(file, current[p]) :
        /\ file' = o.file
        /\ saved' = [saved EXCEPT ![p] = o.ok]
        /\ allSaved' = (allSaved /\ o.ok)
    /\ pc' = [pc EXCEPT ![p] = "saved"]
    /\ UNCHANGED <<cost_data, current, previous, new_services, result, runs, startFile,
                   seen, opens, lastFull, everFull, base, everBase, lastOver, extractVars, storeVars>>

\* Lines 106-111.
Return(p) ==
    /\ pc[p] = "saved"
    /\ \E text \in Report(new_services[p]) : result' = [result EXCEPT ![p] = text]
    /\ Over(p, "returned")
    /\ UNCHANGED <<file, cost_data, current, previous, new_services, runs, startFile,
                   seen, opens, saved, allSaved, base, everBase, extractVars, storeVars>>

\* A process calls the tool once it has started: its invocation overlaps
\* whatever the other process is doing.
FetchOnce(p) ==
    /\ pc[p] = "idle"
    /\ Fetch(p)

InitTool ==
    /\ pc = [p \in Procs |-> "idle"]
    /\ cost_data = [p \in Procs |-> Unset]
    /\ current = [p \in Procs |-> {}]
    /\ previous = [p \in Procs |-> {}]
    /\ new_services = [p \in Procs |-> {}]
    /\ result = [p \in Procs |-> ""]
    /\ runs = 0
    /\ startFile = [p \in Procs |-> file]
    /\ seen = [p \in Procs |-> FileAbsent]
    /\ opens = [p \in Procs |-> 0]
    /\ saved = [p \in Procs |-> FALSE]
    /\ allSaved = TRUE
    /\ lastFull = BaselineOf(file)
    /\ everFull = BaselineOf(file)
    /\ base = [p \in Procs |-> BaselineOf(file)]
    /\ everBase = [p \in Procs |-> BaselineOf(file)]
    /\ lastOver = ""

IdleExtract == data = Unset /\ extracted = NoOutcome /\ extractPc = "done"
IdleStore == storeArg = {} /\ storePc = "done" /\ storeOk = "none" /\ loaded = NoOutcome

Init ==
    /\ file \in InitialFiles
    /\ InitTool /\ IdleExtract /\ IdleStore

\* The process of the serial specification.
Server == "a"

Next ==
    \/ Fetch(Server) \/ Extract(Server) \/ Load(Server)
    \/ SaveOpen(Server) \/ SaveWrite(Server) \/ Return(Server)

\* One server process: flag_new_services is a coroutine that never awaits, so
\* the invocations a process serves follow one another.
Spec == Init /\ [][Next]_vars

NextConc == \E p \in Procs :
    FetchOnce(p) \/ Extract(p) \/ Load(p) \/ SaveOpen(p) \/ SaveWrite(p) \/ Return(p)

\* The file two overlapping invocations find: none, a baseline, or one that
\* makes load_previous_services raise.
InitConc ==
    /\ file \in {FileAbsent, FileScalar, FileArray(<<"Lambda">>)}
    /\ InitTool /\ IdleExtract /\ IdleStore

\* Two server processes in one working directory, an invocation each.
SpecConc == InitConc /\ [][NextConc]_vars

\* ------------------------------------------- extract_services on its own

ExtractCall ==
    /\ extractPc = "call"
    /\ extracted' = extract_services(data)
    /\ extractPc' = "done"
    /\ UNCHANGED <<data, file, toolVars, storeVars>>

InitExtract ==
    /\ file = FileAbsent
    /\ InitTool /\ IdleStore
    /\ data \in ExtractInputs
    /\ extracted = NoOutcome
    /\ extractPc = "call"

SpecExtract == InitExtract /\ [][ExtractCall]_vars

\* --------------------------------------------- the baseline store on its own

\* save_current_services(storeArg), line 64.
StoreOpen ==
    /\ storePc = "save"
    /\ \E o \in OpenForWrite(file) :
        /\ file' = o.file
        /\ storePc' = IF o.ok THEN "write" ELSE "load"
        /\ storeOk' = IF o.ok THEN storeOk ELSE "IOError"
    /\ UNCHANGED <<storeArg, loaded, toolVars, extractVars>>

\* save_current_services(storeArg), line 65.
StoreWrite ==
    /\ storePc = "write"
    /\ \E o \in DumpAndClose(file, storeArg) :
        /\ file' = o.file
        /\ storeOk' = IF o.ok THEN "ok" ELSE "IOError"
    /\ storePc' = "load"
    /\ UNCHANGED <<storeArg, loaded, toolVars, extractVars>>

\* load_previous_services().
StoreLoad ==
    /\ storePc = "load"
    /\ loaded' = load_previous_services(file)
    /\ storePc' = "done"
    /\ UNCHANGED <<file, storeArg, storeOk, toolVars, extractVars>>

\* A save of any set over any file and then a load, or a load alone.
InitStore ==
    /\ file \in InitialFiles
    /\ InitTool /\ IdleExtract
    /\ storeArg \in SUBSET Services
    /\ storePc \in {"save", "load"}
    /\ storeOk = "none"
    /\ loaded = NoOutcome

NextStore == StoreOpen \/ StoreWrite \/ StoreLoad

SpecStore == InitStore /\ [][NextStore]_vars

\* ======================================================== the claims

Full(p) == current[p] # {}

\* The file holds exactly the set S.
Holds(f, S) == f.kind = "array" /\ SetOf(f.items) = S

\* ---- C1
\* C1: once an invocation that passed lines 88 and 93 is over, the file holds
\* exactly the current set of that invocation.
C1_BaselineIsCurrent ==
    (pc[Server] \in {"returned", "raised"} /\ Full(Server)) => Holds(file, current[Server])

\* ---- C2
\* C2: when the billing query gives no data, the invocation returns the fetch
\* error and has neither opened nor changed the baseline file.
C2_NoDataLeavesBaseline ==
    cost_data[Server] = None =>
        /\ pc[Server] = "returned"
        /\ result[Server] = "Error: Could not fetch AWS cost data"
        /\ opens[Server] = 0
        /\ file = startFile[Server]

\* The query failed where no baseline file existed, and none exists afterwards.
C2_Witness ==
    /\ cost_data[Server] = None
    /\ pc[Server] = "returned"
    /\ startFile[Server] = FileAbsent
    /\ file = FileAbsent

\* ---- C3
\* C3: when the query gave data and extract_services returned the empty set,
\* the invocation returns the no-services text and the baseline file is as it was.
C3_EmptyExtractionLeavesBaseline ==
    (cost_data[Server] = Read /\ ~Full(Server) /\ pc[Server] # "raised") =>
        /\ pc[Server] = "returned"
        /\ result[Server] = "No services found in the AWS cost data."
        /\ opens[Server] = 0
        /\ file = startFile[Server]

\* An empty extraction after an invocation that stored two services: they stay.
C3_Witness ==
    /\ cost_data[Server] = Read /\ ~Full(Server)
    /\ pc[Server] = "returned"
    /\ runs = 2
    /\ Holds(file, {"EC2", "S3"})
    /\ lastFull = {"EC2", "S3"}

\* ---- C4
\* The identifiers of a list, each once, joined by ", ".
Listed(o) ==
    CASE Len(o) = 1 -> o[1]
      [] Len(o) = 2 -> o[1] \o ", " \o o[2]
      [] Len(o) = 3 -> o[1] \o ", " \o o[2] \o ", " \o o[3]

\* What the claim lets an invocation return for the difference d.
Reported(d) ==
    IF d = {} THEN {"No new AWS services detected since last check."}
    ELSE {"New AWS services detected: " \o Listed(o) : o \in Orderings(d)}

\* C4: an invocation that returns after line 94 reports exactly current minus
\* the baseline the file held when the invocation began.
C4_ReportsDifference ==
    (pc[Server] = "returned" /\ Full(Server)) =>
        result[Server] \in Reported(current[Server] \ BaselineOf(startFile[Server]))

\* Two new services are listed while the one of the old baseline is not.
C4_Witness ==
    /\ pc[Server] = "returned"
    /\ BaselineOf(startFile[Server]) = {"Lambda"}
    /\ current[Server] = {"EC2", "S3"}
    /\ result[Server] = "New AWS services detected: S3, EC2"
    /\ Holds(file, {"EC2", "S3"})

\* ---- C5
\* C5: no invocation ends by raising.
C5_NeverRaises == pc[Server] # "raised"

\* ---- C6
\* C6 as claimed: a load after any save returns the set that was saved.
C6_RoundTrip ==
    (storePc = "done" /\ storeOk # "none") => loaded = [raised |-> FALSE, value |-> storeArg]

\* C6 as amended: a load after a save that met no IOError returns the set
\* that was saved, whatever the file held before.
C6_RoundTripWhenSaved ==
    (storePc = "done" /\ storeOk = "ok") => loaded = [raised |-> FALSE, value |-> storeArg]

\* A one-element set saved over a longer baseline of two other services.
C6_Witness ==
    /\ storePc = "done" /\ storeOk = "ok"
    /\ startFile[Server] = FileArray(<<"EC2", "S3">>)
    /\ storeArg = {"Lambda"}
    /\ loaded.value = {"Lambda"}

\* ---- C7
\* C7: load_previous_services returns the empty set and does not raise when
\* the file is absent or does not hold a JSON array.
C7_LoadOfNoArrayIsEmpty ==
    (storePc = "done" /\ storeOk = "none" /\ file.kind # "array") =>
        /\ loaded = [raised |-> FALSE, value |-> {}]
        /\ file = startFile[Server]

\* ---- C8
\* The entries of a response in walking order: a bucket without 'Groups' is one
\* malformed entry, a group without 'Keys' is a malformed entry.
RECURSIVE Entries(_, _)
Entries(results, i) ==
    IF i > Len(results) THEN <<>>
    ELSE (IF ~results[i].hasGroups THEN <<[bad |-> TRUE, Keys |-> <<>>]>>
          ELSE [j \in 1..Len(results[i].Groups) |->
                  [bad |-> ~results[i].Groups[j].hasKeys, Keys |-> results[i].Groups[j].Keys]])
         \o Entries(results, i + 1)

EntriesOf(d) == IF ~d.hasResultsByTime THEN <<[bad |-> TRUE, Keys |-> <<>>]>>
                ELSE Entries(d.ResultsByTime, 1)

FirstBad(es) == IF \E k \in DOMAIN es : es[k].bad
                THEN CHOOSE k \in DOMAIN es : es[k].bad /\ \A m \in 1..(k - 1) : ~es[m].bad
                ELSE Len(es) + 1

\* C8: when extract_services returns, its value is the set of first keys of the
\* groups that precede the first entry with a missing field, and nothing else.
C8_StopOnFirstError ==
    (extractPc = "done" /\ ~extracted.raised) =>
        LET es == EntriesOf(data)
        IN  extracted.value = {es[k].Keys[1] : k \in 1..(FirstBad(es) - 1)}

\* A well-formed group, then a group without 'Keys', then a well-formed group of
\* another service in a later bucket: only the first group's key is returned.
C8_Witness ==
    /\ extractPc = "done"
    /\ ~extracted.raised
    /\ data.hasResultsByTime
    /\ Len(data.ResultsByTime) = 2
    /\ data.ResultsByTime[1].hasGroups
    /\ Len(data.ResultsByTime[1].Groups) = 2
    /\ data.ResultsByTime[1].Groups[1].Keys = <<"EC2">>
    /\ ~data.ResultsByTime[1].Groups[2].hasKeys
    /\ data.ResultsByTime[2].hasGroups
    /\ Len(data.ResultsByTime[2].Groups) = 1
    /\ data.ResultsByTime[2].Groups[1].Keys = <<"S3", "EC2">>
    /\ extracted.value = {"EC2"}

\* ---- C9
\* C9: with two processes overlapping, an invocation compares its current set
\* with the file as its own load found it, whatever the other process has
\* written since, and what it returns lists that difference.
C9_ReportFromOwnLoad ==
    \A p \in Procs :
        /\ pc[p] \in {"compared", "opened", "saved"} =>
              new_services[p] = current[p] \ BaselineOf(seen[p])
        /\ (pc[p] = "returned" /\ Full(p)) =>
              result[p] \in Reported(current[p] \ BaselineOf(seen[p]))

\* Both invocations loaded before either saved (neither found a file) and
\* both report EC2 as new; both saves wrote the file; "a" ended last, and the
\* file holds the current set of "b".
C9_Witness ==
    /\ pc["a"] = "returned" /\ pc["b"] = "returned"
    /\ seen["a"] = FileAbsent /\ seen["b"] = FileAbsent
    /\ saved["a"] /\ saved["b"]
    /\ current["a"] = {"EC2", "S3"} /\ current["b"] = {"EC2"}
    /\ "EC2" \in new_services["a"] /\ result["b"] = "New AWS services detected: EC2"
    /\ lastOver = "a"
    /\ Holds(file, current["b"])

\* ---- C10
\* C10: while no save has met an IOError, a serial invocation that returns
\* after line 94 reports exactly its current set minus the current set of the
\* last earlier invocation that passed line 94 (the baseline at the start if
\* there is none).
C10_ComparesWithLastFullRun ==
    (pc[Server] = "returned" /\ Full(Server) /\ allSaved) =>
        result[Server] \in Reported(current[Server] \ base[Server])

\* The third invocation: EC2 was billed before, was absent from the last full
\* run, and is reported as new again.
C10_Witness ==
    /\ pc[Server] = "returned" /\ Full(Server) /\ allSaved
    /\ runs = 3
    /\ "EC2" \in everBase[Server]
    /\ base[Server] = {"S3"}
    /\ result[Server] = "New AWS services detected: EC2"
====
